---------------------------- MODULE Spec2Model ----------------------------
(***************************************************************************)
(* Striking Distance On-Page Analysis (src/app.py).                        *)
(*                                                                         *)
(* A text value is a tuple of one-character strings, so that the string    *)
(* operations of the code (strip, rstrip, lower, split, join, in,          *)
(* startswith, endswith) are computed character by character.  A missing   *)
(* value (pandas NaN / None) is the one-element tuple NaN, which no text   *)
(* equals because "NaN" is not a character.                                *)
(***************************************************************************)
EXTENDS Integers, Sequences, FiniteSets, TLC

VARIABLES
    pc,                 \* position of the run
    url_in,             \* argument of clean_url / should_exclude_url
    url_out,            \* value returned by clean_url
    url_out2,           \* value returned by clean_url applied to url_out
    excl_out,           \* value returned by should_exclude_url
    keyword_in,         \* argument keyword of check_keyword_presence
    text_in,            \* argument text of check_keyword_presence
    presence_out,       \* value returned by check_keyword_presence
    excluded_urls,      \* app.py:33 the exclusion list of the sidebar
    branded_terms,      \* app.py:26 the branded terms of the sidebar
    top_keywords_count, \* app.py:40 the number of keywords kept per URL
    gsc_file,           \* app.py:58 the table of the uploaded performance file
    sf_file,            \* app.py:66 the table of the uploaded crawl file
    gsc_df,             \* app.py:453 the performance table as loaded
    crawl_df,           \* app.py:454 the crawl table as loaded
    st_error,           \* the messages shown by st.error, in order
    processed_gsc,      \* app.py:458 the cleaned table (or None)
    processed_crawl,    \* app.py:462 the content table (or None)
    report              \* app.py:465 the report

vars == <<pc, url_in, url_out, url_out2, excl_out, keyword_in, text_in,
          presence_out, excluded_urls, branded_terms, top_keywords_count,
          gsc_file, sf_file, gsc_df, crawl_df, st_error,
          processed_gsc, processed_crawl, report>>

-----------------------------------------------------------------------------
(* Text primitives of Python's str.                                        *)

NaN == <<"NaN">>

IsNa(v) == v = NaN

WhiteSpace == {" ", "\t", "\n"}

Upper == <<"A","B","C","D","E","F","G","H","I","J","K","L","M","N","O","P","Q","R","S","T","U","V","W","X","Y","Z">>

Lowers == <<"a","b","c","d","e","f","g","h","i","j","k","l","m","n","o","p","q","r","s","t","u","v","w","x","y","z">>

LowerChar(c) ==
    IF \E i \in 1..Len(Upper) : Upper[i] = c
    THEN Lowers[CHOOSE i \in 1..Len(Upper) : Upper[i] = c]
    ELSE c

\* str.lower()
Lower(s) == [i \in 1..Len(s) |-> LowerChar(s[i])]

RECURSIVE LStripSet(_, _)
LStripSet(s, cs) ==
    IF s # << >> /\ Head(s) \in cs THEN LStripSet(Tail(s), cs) ELSE s

RECURSIVE RStripSet(_, _)
\* str.rstrip(chars): every trailing character of the set is removed
RStripSet(s, cs) ==
    IF s # << >> /\ s[Len(s)] \in cs
    THEN RStripSet(SubSeq(s, 1, Len(s) - 1), cs)
    ELSE s

\* str.strip()
Strip(s) == RStripSet(LStripSet(s, WhiteSpace), WhiteSpace)

\* sub in s
Contains(sub, s) ==
    \E i \in 0..(Len(s) - Len(sub)) : SubSeq(s, i + 1, i + Len(sub)) = sub

StartsWith(s, pre) ==
    Len(pre) <= Len(s) /\ SubSeq(s, 1, Len(pre)) = pre

EndsWith(s, suf) ==
    Len(suf) <= Len(s) /\ SubSeq(s, Len(s) - Len(suf) + 1, Len(s)) = suf

RECURSIVE Split(_)
\* str.split(): the maximal runs of non-whitespace characters
Split(s) ==
    LET t == LStripSet(s, WhiteSpace)
        n == IF \E i \in 1..Len(t) : t[i] \in WhiteSpace
             THEN (CHOOSE i \in 1..Len(t) :
                      t[i] \in WhiteSpace /\ \A j \in 1..(i - 1) : t[j] \notin WhiteSpace) - 1
             ELSE Len(t)
    IN  IF t = << >> THEN << >>
        ELSE <<SubSeq(t, 1, n)>> \o Split(SubSeq(t, n + 1, Len(t)))

RECURSIVE Join(_, _)
\* sep.join(words)
Join(words, sep) ==
    IF words = << >> THEN << >>
    ELSE IF Len(words) = 1 THEN words[1]
    ELSE words[1] \o sep \o Join(Tail(words), sep)

\* at most one trailing slash removed
clean_url_single_trim(url) ==
    IF IsNa(url) THEN << >>
    ELSE IF Strip(url) # << >> /\ Strip(url)[Len(Strip(url))] = "/"
    THEN SubSeq(Strip(url), 1, Len(Strip(url)) - 1)
    ELSE Strip(url)

-----------------------------------------------------------------------------
(* clean_url, app.py:117-125                                               *)

clean_url(url) ==
    IF IsNa(url) THEN << >>
    ELSE RStripSet(Strip(url), {"/"})

-----------------------------------------------------------------------------
(* should_exclude_url, app.py:196-225                                      *)

\* the characters without '#'
ParamCharsNoFragment == {"?", "="}

\* app.py:199
ParamChars == {"?", "=", "#"}

HasParam(url) == \E i \in 1..Len(url) : url[i] \in ParamChars

\* a match of the entry as a prefix or a part of the URL
EntryMatchesPrefix(normalized_url, excluded_normalized) ==
    \/ StartsWith(normalized_url, excluded_normalized)
    \/ /\ ~StartsWith(excluded_normalized, <<"h","t","t","p">>)
       /\ Contains(<<"/">> \o excluded_normalized, normalized_url)

\* app.py:214-223, the test of one exclusion entry against the URL, both
\* with their trailing slashes removed
EntryMatches(normalized_url, excluded_normalized) ==
    \/ normalized_url = excluded_normalized
    \/ /\ ~StartsWith(excluded_normalized, <<"h","t","t","p">>)
       /\ \/ normalized_url = <<"h","t","t","p","s",":","/","/">> \o excluded_normalized
          \/ normalized_url = <<"h","t","t","p",":","/","/">> \o excluded_normalized
          \/ EndsWith(normalized_url, <<"/">> \o excluded_normalized)

should_exclude_url(url, excluded) ==
    IF HasParam(url) THEN TRUE
    ELSE IF excluded # << >>
    THEN LET normalized_url == RStripSet(url, {"/"})
         IN  \E i \in 1..Len(excluded) :
                LET e == Strip(excluded[i])
                IN  e # << >> /\ EntryMatches(normalized_url, RStripSet(e, {"/"}))
    ELSE FALSE

-----------------------------------------------------------------------------
(* check_keyword_presence, app.py:127-194.  The result is "None", "True"   *)
(* or "False".                                                             *)

\* the list without 'the'
articles_without_the == <<<<"a">>, <<"a","n">>>>

\* app.py:159
articles == <<<<"a">>, <<"a","n">>, <<"t","h","e">>>>

IsArticle(w) == \E k \in 1..Len(articles) : articles[k] = w

SelectSeqNoArticles(words) == SelectSeq(words, LAMBDA w : ~IsArticle(w))

\* app.py:161-171
article_variations(words) ==
    { Join(SubSeq(words, 1, i) \o <<articles[k]>> \o SubSeq(words, i + 1, Len(words)), <<" ">>) :
          i \in 0..Len(words), k \in 1..Len(articles) }
    \cup ( IF Len(SelectSeqNoArticles(words)) < Len(words)
           THEN { Join(SelectSeqNoArticles(words), <<" ">>) }
           ELSE {} )

\* app.py:143-151
punctuation_variations(keyword_lower) ==
    { keyword_lower \o <<"?">>, keyword_lower \o <<"!">>,
      keyword_lower \o <<".">>, keyword_lower \o <<":">> }

\* app.py:179-192
plural_match(keyword_lower, text_lower) ==
    IF EndsWith(keyword_lower, <<"s">>)
    THEN Contains(SubSeq(keyword_lower, 1, Len(keyword_lower) - 1), text_lower)
    ELSE IF EndsWith(keyword_lower, <<"e","s">>)
    THEN Contains(SubSeq(keyword_lower, 1, Len(keyword_lower) - 2), text_lower)
    ELSE \/ Contains(keyword_lower \o <<"s">>, text_lower)
         \/ Contains(keyword_lower \o <<"e","s">>, text_lower)

\* the test without the empty text
MissingIgnoringText(keyword, text) ==
    IsNa(keyword) \/ IsNa(text) \/ keyword = << >>

\* app.py:129
Missing(keyword, text) ==
    IsNa(keyword) \/ IsNa(text) \/ keyword = << >> \/ text = << >>

\* app.py:136-194, on the lower-cased keyword and text
smart_match(keyword_lower, text_lower) ==
    IF Contains(keyword_lower, text_lower) THEN "True"
    ELSE IF \E v \in punctuation_variations(keyword_lower) :
               Contains(v, text_lower) THEN "True"
    ELSE IF \E v \in article_variations(Split(keyword_lower)) :
               Contains(v, text_lower) THEN "True"
    ELSE IF plural_match(keyword_lower, text_lower) THEN "True"
    ELSE "False"

check_keyword_presence(keyword, text) ==
    IF Missing(keyword, text) THEN "None"
    ELSE smart_match(Strip(Lower(keyword)), Lower(text))

-----------------------------------------------------------------------------
(* Tables.  A table (DataFrame) is a record of its column names and its     *)
(* rows; a row is the tuple of its cells, one per column, each a text or    *)
(* NaN.  Numbers are kept in tenths: the text "3.9" is the number 39.       *)

Digits == <<"0","1","2","3","4","5","6","7","8","9">>

IsDigit(c) == \E i \in 1..Len(Digits) : Digits[i] = c

DigitVal(c) == (CHOOSE i \in 1..Len(Digits) : Digits[i] = c) - 1

RECURSIVE NatVal(_)
NatVal(s) == IF s = << >> THEN 0 ELSE NatVal(SubSeq(s, 1, Len(s) - 1)) * 10 + DigitVal(s[Len(s)])

AllDigits(s) == s # << >> /\ \A i \in 1..Len(s) : IsDigit(s[i])

\* the unsigned decimal texts with at most one digit after the point
IsUnsignedNum(s) ==
    \/ AllDigits(s)
    \/ /\ Len(s) >= 3
       /\ s[Len(s) - 1] = "."
       /\ AllDigits(SubSeq(s, 1, Len(s) - 2))
       /\ IsDigit(s[Len(s)])

UnsignedVal(s) ==
    IF AllDigits(s) THEN NatVal(s) * 10
    ELSE NatVal(SubSeq(s, 1, Len(s) - 2)) * 10 + DigitVal(s[Len(s)])

\* pd.to_numeric(cell, errors='coerce'): [ok |-> parsed, v |-> tenths]
to_numeric(cell) ==
    IF IsNa(cell) THEN [ok |-> FALSE, v |-> 0]
    ELSE LET s == Strip(cell)
         IN  IF IsUnsignedNum(s) THEN [ok |-> TRUE, v |-> UnsignedVal(s)]
             ELSE IF s # << >> /\ Head(s) = "-" /\ IsUnsignedNum(Tail(s))
             THEN [ok |-> TRUE, v |-> 0 - UnsignedVal(Tail(s))]
             ELSE [ok |-> FALSE, v |-> 0]

\* the characters of the model in code-point order
Ascii == <<" ","!","#","-",".","/","0","1","2","3","4","5","6","7","8","9",":","=","?","A","B","C","D","E","F","G","H","I","J","K","L","M","N","O","P","Q","R","S","T","U","V","W","X","Y","Z","_","a","b","c","d","e","f","g","h","i","j","k","l","m","n","o","p","q","r","s","t","u","v","w","x","y","z">>

Code(c) == CHOOSE i \in 1..Len(Ascii) : Ascii[i] = c

\* a < b for Python texts
LessStr(a, b) ==
    \E i \in 1..Len(b) :
        /\ i <= Len(a) + 1
        /\ \A j \in 1..(i - 1) : a[j] = b[j]
        /\ (i = Len(a) + 1 \/ Code(a[i]) < Code(b[i]))

HasColumn(columns, name) == \E i \in 1..Len(columns) : columns[i] = name

CountColumn(columns, name) == Cardinality({i \in 1..Len(columns) : columns[i] = name})

ColumnIndex(columns, name) == CHOOSE i \in 1..Len(columns) : columns[i] = name

\* df.rename(columns={old: new})
Rename(columns, old, new) ==
    [i \in 1..Len(columns) |-> IF columns[i] = old THEN new ELSE columns[i]]

\* the first column whose lower-cased name is one of names, or NaN
FirstColumnLower(columns, names) ==
    IF \E i \in 1..Len(columns) : Lower(columns[i]) \in names
    THEN columns[CHOOSE i \in 1..Len(columns) :
                    /\ Lower(columns[i]) \in names
                    /\ \A j \in 1..(i - 1) : Lower(columns[j]) \notin names]
    ELSE NaN

\* the first name of the list that is a column, or NaN
RECURSIVE FirstListed(_, _)
FirstListed(names, columns) ==
    IF names = << >> THEN NaN
    ELSE IF HasColumn(columns, Head(names)) THEN Head(names)
    ELSE FirstListed(Tail(names), columns)

SeqToSet(s) == {s[i] : i \in 1..Len(s)}

RECURSIVE Unique(_)
\* Series.unique(): the values in order of first appearance
Unique(s) ==
    IF s = << >> THEN << >>
    ELSE LET front == Unique(SubSeq(s, 1, Len(s) - 1))
         IN  IF s[Len(s)] \in SeqToSet(front) THEN front ELSE Append(front, s[Len(s)])

\* DataFrame.head(n)
HeadN(s, n) == SubSeq(s, 1, IF n < Len(s) THEN n ELSE Len(s))

-----------------------------------------------------------------------------
(* process_gsc_data, app.py:227-336                                        *)

\* app.py:49
min_position == 4

\* app.py:50
max_position == 20

\* app.py:246
landing_page_variants ==
    <<<<"l","a","n","d","i","n","g"," ","p","a","g","e">>, <<"l","a","n","d","i","n","g"," ","p","a","g","e","s">>, <<"a","d","d","r","e","s","s">>, <<"u","r","l">>, <<"u","r","l","s">>, <<"p","a","g","e">>, <<"t","o","p"," ","p","a","g","e","s">>>>

\* app.py:230
StripColumns(columns) == [i \in 1..Len(columns) |-> Strip(columns[i])]

\* app.py:233-261
query_col(columns) == FirstColumnLower(columns, {<<"q","u","e","r","y">>})

landing_page_col(columns) == FirstColumnLower(columns, SeqToSet(landing_page_variants))

clicks_col(columns) == FirstColumnLower(columns, {<<"c","l","i","c","k","s">>})

missing_cols(columns) ==
    (IF IsNa(query_col(columns)) THEN <<<<"Q","u","e","r","y">>>> ELSE << >>)
    \o (IF IsNa(landing_page_col(columns)) THEN <<<<"L","a","n","d","i","n","g"," ","P","a","g","e"," ","(","o","r"," ","A","d","d","r","e","s","s","/","U","R","L",")">>>> ELSE << >>)
    \o (IF IsNa(clicks_col(columns)) THEN <<<<"C","l","i","c","k","s">>>> ELSE << >>)

\* app.py:270-286
RenameVariant(columns, v) == IF IsNa(v) THEN columns ELSE Rename(columns, v, <<"U","R","L">>)

RenameListed(columns) == RenameVariant(columns, FirstListed(landing_page_variants, columns))

RenameGscColumns(columns) ==
    RenameListed(
        Rename(Rename(Rename(Rename(columns, query_col(columns), <<"K","e","y","w","o","r","d">>),
                             landing_page_col(columns), <<"U","R","L">>),
                      clicks_col(columns), <<"C","l","i","c","k","s">>),
               <<"Q","u","e","r","y">>, <<"K","e","y","w","o","r","d">>))

\* app.py:289, df['URL'] = df['URL'].apply(clean_url)
CleanUrlColumn(df) ==
    LET u == ColumnIndex(df.columns, <<"U","R","L">>)
    IN  [columns |-> df.columns,
         rows |-> [i \in 1..Len(df.rows) |->
                     [j \in 1..Len(df.columns) |->
                        IF j = u THEN clean_url(df.rows[i][j]) ELSE df.rows[i][j]]]]

Cell(df, i, name) == df.rows[i][ColumnIndex(df.columns, name)]

\* the rows of the frame with the cells the function reads; idx is the index
\* label of the row, its place in the table as loaded
GscRecords(df) ==
    [i \in 1..Len(df.rows) |->
        [idx |-> i,
         URL |-> Cell(df, i, <<"U","R","L">>),
         Keyword |-> Cell(df, i, <<"K","e","y","w","o","r","d">>),
         Clicks |-> to_numeric(Cell(df, i, <<"C","l","i","c","k","s">>)),
         Position |-> IF HasColumn(df.columns, <<"P","o","s","i","t","i","o","n">>)
                      THEN to_numeric(Cell(df, i, <<"P","o","s","i","t","i","o","n">>))
                      ELSE [ok |-> FALSE, v |-> 0]]]

\* app.py:290-291
KeepNonEmpty(rs) ==
    SelectSeq(rs, LAMBDA r : /\ ~IsNa(r.URL) /\ r.URL # << >>
                             /\ ~IsNa(r.Keyword) /\ r.Keyword # << >>)

\* app.py:295
DropExcluded(rs, excluded) ==
    SelectSeq(rs, LAMBDA r : ~should_exclude_url(r.URL, excluded))

\* app.py:301-304, to_numeric(...).fillna(0) then Clicks > 0
KeepClicked(rs) ==
    SelectSeq([i \in 1..Len(rs) |->
                  [rs[i] EXCEPT !.Clicks = IF rs[i].Clicks.ok THEN rs[i].Clicks.v ELSE 0]],
              LAMBDA r : r.Clicks > 0)

WithDefaultPosition(rs) == [i \in 1..Len(rs) |-> [rs[i] EXCEPT !.Position = 100]]

\* the band without its two bounds
InBandOpen(p) == p > min_position * 10 /\ p < max_position * 10

\* app.py:312-313
InBand(p) == p >= min_position * 10 /\ p <= max_position * 10

\* app.py:311-316
FilterBand(rs, df_with_position) ==
    IF Len(df_with_position) > 0
    THEN SelectSeq([i \in 1..Len(df_with_position) |->
                       [df_with_position[i] EXCEPT !.Position = df_with_position[i].Position.v]],
                   LAMBDA r : InBand(r.Position))
    ELSE WithDefaultPosition(rs)

\* app.py:307-320
PositionStep(rs, has_position) ==
    IF has_position
    THEN FilterBand(rs, SelectSeq(rs, LAMBDA r : r.Position.ok))
    ELSE WithDefaultPosition(rs)

\* app.py:324
branded_terms_clean(terms) ==
    SelectSeq([i \in 1..Len(terms) |-> Strip(terms[i])], LAMBDA t : t # << >>)

\* a search that tells upper case from lower case
DropBrandedCaseSensitive(rs, terms) ==
    LET clean == branded_terms_clean(terms)
    IN  IF terms # << >> /\ clean # << >>
        THEN SelectSeq(rs, LAMBDA r :
                 ~\E k \in 1..Len(clean) : Contains(clean[k], r.Keyword))
        ELSE rs

\* app.py:323-327, a case-insensitive search of the escaped terms
DropBranded(rs, terms) ==
    LET clean == branded_terms_clean(terms)
    IN  IF terms # << >> /\ clean # << >>
        THEN SelectSeq(rs, LAMBDA r :
                 ~\E k \in 1..Len(clean) : Contains(Lower(clean[k]), Lower(r.Keyword)))
        ELSE rs

\* the clicks in ascending order
BeforeAscendingClicks(a, b) ==
    \/ LessStr(a.URL, b.URL)
    \/ (a.URL = b.URL /\ a.Clicks < b.Clicks)

\* the order of sort_values(['URL', 'Clicks'], ascending=[True, False])
Before(a, b) ==
    \/ LessStr(a.URL, b.URL)
    \/ (a.URL = b.URL /\ a.Clicks > b.Clicks)

\* a row put before the rows it ties with
InsertSortedTiesReversed(sorted, r) ==
    LET p == Cardinality({i \in 1..Len(sorted) : Before(sorted[i], r)})
    IN  SubSeq(sorted, 1, p) \o <<r>> \o SubSeq(sorted, p + 1, Len(sorted))

\* a row put after the rows that do not come after it
InsertSorted(sorted, r) ==
    LET p == Cardinality({i \in 1..Len(sorted) : ~Before(r, sorted[i])})
    IN  SubSeq(sorted, 1, p) \o <<r>> \o SubSeq(sorted, p + 1, Len(sorted))

RECURSIVE SortRows(_)
\* app.py:330 and 444: a stable sort on several columns
SortRows(rs) ==
    IF rs = << >> THEN << >>
    ELSE InsertSorted(SortRows(SubSeq(rs, 1, Len(rs) - 1)), rs[Len(rs)])

\* app.py:288-336, on the frame with its URL column cleaned
CleanRows(cleaned, branded, excluded) ==
    SortRows(DropBranded(
        PositionStep(KeepClicked(DropExcluded(KeepNonEmpty(GscRecords(cleaned)), excluded)),
                     HasColumn(cleaned.columns, <<"P","o","s","i","t","i","o","n">>)),
        branded))

\* app.py:288-336: lines 290-330 bind df to new frames, the caller's frame
\* keeps the state line 289 left it in
GscCleaned(cleaned, branded, excluded) ==
    [outcome |-> "table", rows |-> CleanRows(cleaned, branded, excluded), df |-> cleaned]

\* app.py:269-336, on the frame with its columns renamed; outcome "raise":
\* df['URL'] (or 'Keyword', 'Clicks') names two columns
GscRenamed(renamed, branded, excluded) ==
    IF \E n \in {<<"U","R","L">>, <<"K","e","y","w","o","r","d">>, <<"C","l","i","c","k","s">>} : CountColumn(renamed.columns, n) > 1
    THEN [outcome |-> "raise", rows |-> << >>, df |-> renamed]
    ELSE GscCleaned(CleanUrlColumn(renamed), branded, excluded)

\* app.py:232-336, on the stripped column names
GscStripped(stripped, df, branded, excluded) ==
    IF missing_cols(stripped) # << >>
    THEN [outcome |-> "none", rows |-> << >>,
          df |-> [columns |-> stripped, rows |-> df.rows]]
    ELSE GscRenamed([columns |-> RenameGscColumns(stripped), rows |-> df.rows],
                    branded, excluded)

\* The value returned (outcome, rows), and df: the frame of the caller as the
\* function leaves it (the assignment to df.columns, rename(inplace=True) and
\* the assignment to df['URL'] act on the caller's object).
process_gsc_data(df, branded, excluded) ==
    GscStripped(StripColumns(df.columns), df, branded, excluded)

\* app.py:295 with no row left by lines 290-291: apply() on the empty column
\* gives an empty mask of dtype object, which the frame may read as a list of
\* column labels; it then has no column and line 301 raises KeyError.  Which
\* of the two happens rests on the pandas at hand, so both are outcomes.
EmptyMaskRaises(res) ==
    IF res.outcome = "table" /\ KeepNonEmpty(GscRecords(res.df)) = << >>
    THEN {[outcome |-> "raise", rows |-> << >>, df |-> res.df]}
    ELSE {}

process_gsc_outcomes(df, branded, excluded) ==
    {process_gsc_data(df, branded, excluded)}
    \cup EmptyMaskRaises(process_gsc_data(df, branded, excluded))

-----------------------------------------------------------------------------
(* process_crawl_data, app.py:338-385                                      *)

\* app.py:341
url_columns == <<<<"A","d","d","r","e","s","s">>, <<"U","R","L">>, <<"L","a","n","d","i","n","g"," ","P","a","g","e">>, <<"L","a","n","d","i","n","g"," ","P","a","g","e","s">>, <<"U","R","L","s">>>>

\* app.py:381-383, df[orig_col].fillna('') or ''
CrawlCell(df, i, name) ==
    IF HasColumn(df.columns, name)
    THEN (IF IsNa(Cell(df, i, name)) THEN << >> ELSE Cell(df, i, name))
    ELSE << >>

\* app.py:353-385, on the frame with its URL column cleaned
CrawlRecords(cleaned) ==
    [i \in 1..Len(cleaned.rows) |->
        [idx |-> i,
         URL |-> Cell(cleaned, i, <<"U","R","L">>),
         Title |-> CrawlCell(cleaned, i, <<"T","i","t","l","e"," ","1">>),
         H1 |-> CrawlCell(cleaned, i, <<"H","1","-","1">>),
         Meta |-> CrawlCell(cleaned, i, <<"M","e","t","a"," ","D","e","s","c","r","i","p","t","i","o","n"," ","1">>),
         H2 |-> <<CrawlCell(cleaned, i, <<"H","2","-","1">>),
                  CrawlCell(cleaned, i, <<"H","2","-","2">>),
                  CrawlCell(cleaned, i, <<"H","2","-","3">>),
                  CrawlCell(cleaned, i, <<"H","2","-","4">>),
                  CrawlCell(cleaned, i, <<"H","2","-","5">>)>>,
         Copy |-> CrawlCell(cleaned, i, <<"C","o","p","y"," ","1">>)]]

\* app.py:356-357
KeepIndexable(cleaned, rs) ==
    IF HasColumn(cleaned.columns, <<"I","n","d","e","x","a","b","i","l","i","t","y">>)
    THEN SelectSeq(rs, LAMBDA r : Cell(cleaned, r.idx, <<"I","n","d","e","x","a","b","i","l","i","t","y">>) = <<"I","n","d","e","x","a","b","l","e">>)
    ELSE rs

CrawlCleaned(cleaned) ==
    [outcome |-> "table", rows |-> KeepIndexable(cleaned, CrawlRecords(cleaned)), df |-> cleaned]

\* app.py:346-385; outcome "raise": df['URL'] names two columns
CrawlRenamed(renamed) ==
    IF CountColumn(renamed.columns, <<"U","R","L">>) > 1
    THEN [outcome |-> "raise", rows |-> << >>, df |-> renamed]
    ELSE CrawlCleaned(CleanUrlColumn(renamed))

CrawlResolved(url_col, df) ==
    IF IsNa(url_col)
    THEN [outcome |-> "none", rows |-> << >>, df |-> df]
    ELSE CrawlRenamed([columns |-> Rename(df.columns, url_col, <<"U","R","L">>), rows |-> df.rows])

process_crawl_data(df) == CrawlResolved(FirstListed(url_columns, df.columns), df)

-----------------------------------------------------------------------------
(* create_striking_distance_report, app.py:387-446                         *)

NoContent ==
    [Title |-> << >>, H1 |-> << >>, Meta |-> << >>, H2 |-> << >>, Copy |-> << >>]

\* app.py:397-413, crawl_row the rows of the content table with the URL
ContentOf(crawl_row) ==
    IF Len(crawl_row) > 0
    THEN [Title |-> crawl_row[1].Title, H1 |-> crawl_row[1].H1, Meta |-> crawl_row[1].Meta,
          H2 |-> Join(crawl_row[1].H2, <<" ">>), Copy |-> crawl_row[1].Copy]
    ELSE NoContent

\* app.py:396-413
ContentFor(url, crawl_rows) == ContentOf(SelectSeq(crawl_rows, LAMBDA c : c.URL = url))

\* None left as it is
FlagNoneKept(presence) == presence

\* app.py:434-437
Flag(presence) == IF presence = "None" THEN "False" ELSE presence

\* app.py:427-428
BodyFlag(presence) == IF presence = "None" THEN "No Data" ELSE presence

\* app.py:416-439; idx is not a field of the report: it records which row of
\* the cleaned table the report row was built from
ReportRow(kw_row, content) ==
    [idx |-> kw_row.idx,
     URL |-> kw_row.URL,
     Keyword |-> kw_row.Keyword,
     Clicks |-> (kw_row.Clicks \div 10) * 10,
     InTitle |-> Flag(check_keyword_presence(kw_row.Keyword, content.Title)),
     InMeta |-> Flag(check_keyword_presence(kw_row.Keyword, content.Meta)),
     InH1 |-> Flag(check_keyword_presence(kw_row.Keyword, content.H1)),
     InH2 |-> Flag(check_keyword_presence(kw_row.Keyword, content.H2)),
     InBody |-> BodyFlag(check_keyword_presence(kw_row.Keyword, content.Copy))]

\* app.py:430-439 and 503: the keys of a report row in the order they are
\* given, which is the order of the columns of the frame and of the header
\* line that to_csv writes
report_columns ==
    <<<<"U","R","L">>, <<"K","e","y","w","o","r","d">>, <<"C","l","i","c","k","s">>, <<"I","n"," ","T","i","t","l","e">>, <<"I","n"," ","M","e","t","a">>, <<"I","n"," ","H","1">>, <<"I","n"," ","H","2">>, <<"I","n"," ","B","o","d","y">>>>

\* app.py:393
url_data(gsc_rows, url, top_n) ==
    HeadN(SelectSeq(gsc_rows, LAMBDA r : r.URL = url), top_n)

\* app.py:416-439
UrlRows(data, content) == [i \in 1..Len(data) |-> ReportRow(data[i], content)]

RECURSIVE ReportData(_, _, _, _)
\* app.py:392-439
ReportData(urls, gsc_rows, crawl_rows, top_n) ==
    IF urls = << >> THEN << >>
    ELSE UrlRows(url_data(gsc_rows, Head(urls), top_n), ContentFor(Head(urls), crawl_rows))
         \o ReportData(Tail(urls), gsc_rows, crawl_rows, top_n)

create_striking_distance_report(gsc_rows, crawl_rows, top_n) ==
    SortRows(ReportData(Unique([i \in 1..Len(gsc_rows) |-> gsc_rows[i].URL]),
                        gsc_rows, crawl_rows, top_n))


-----------------------------------------------------------------------------
(* The run.  app.py:449-515: the two tables are loaded, process_gsc_data   *)
(* cleans the performance table, and when it returned a table with rows,   *)
(* process_crawl_data and create_striking_distance_report follow.          *)

EmptyTable == [columns |-> << >>, rows |-> << >>]

\* a result not computed yet, and the value None
NoResult == [none |-> TRUE, rows |-> << >>]

\* app.py:518, the message of the except clause
ErrorOccurred == <<<<"A","n"," ","e","r","r","o","r"," ","o","c","c","u","r","r","e","d">>>>

\* app.py:264 and 518: the message st.error shows for the outcome, a message
\* being the list of the texts it is made of
gsc_messages(res) ==
    IF res.outcome = "none"
    THEN <<<<<<"M","i","s","s","i","n","g"," ","r","e","q","u","i","r","e","d"," ","c","o","l","u","m","n","s"," ","i","n"," ","G","S","C"," ","d","a","t","a">>>> \o missing_cols(res.df.columns)>>
    ELSE IF res.outcome = "raise" THEN <<ErrorOccurred>> ELSE << >>

\* app.py:350 and 518
crawl_messages(res) ==
    IF res.outcome = "none"
    THEN <<<<<<"N","o"," ","U","R","L","/","A","d","d","r","e","s","s"," ","c","o","l","u","m","n"," ","f","o","u","n","d"," ","i","n"," ","S","c","r","e","a","m","i","n","g"," ","F","r","o","g"," ","d","a","t","a">>>>>>
    ELSE IF res.outcome = "raise" THEN <<ErrorOccurred>> ELSE << >>

\* app.py:458
ProcessGsc ==
    /\ pc = "main"
    /\ \E res \in process_gsc_outcomes(gsc_df, branded_terms, excluded_urls) :
           /\ gsc_df' = res.df
           /\ processed_gsc' = [none |-> res.outcome # "table", rows |-> res.rows]
           /\ pc' = IF res.outcome = "raise" THEN "error" ELSE "gsc_done"
           /\ st_error' = st_error \o gsc_messages(res)
    /\ UNCHANGED <<gsc_file, sf_file, url_in, url_out, url_out2, excl_out, keyword_in, text_in,
                   presence_out, excluded_urls, branded_terms, top_keywords_count,
                   crawl_df, processed_crawl, report>>

\* app.py:460-462
ProcessCrawl ==
    /\ pc = "gsc_done"
    /\ ~processed_gsc.none /\ Len(processed_gsc.rows) > 0
    /\ \E res \in {process_crawl_data(crawl_df)} :
           /\ crawl_df' = res.df
           /\ processed_crawl' = [none |-> res.outcome # "table", rows |-> res.rows]
           /\ pc' = IF res.outcome = "raise" THEN "error" ELSE "crawl_done"
           /\ st_error' = st_error \o crawl_messages(res)
    /\ UNCHANGED <<gsc_file, sf_file, url_in, url_out, url_out2, excl_out, keyword_in, text_in,
                   presence_out, excluded_urls, branded_terms, top_keywords_count,
                   gsc_df, processed_gsc, report>>

\* app.py:514-515, the else branch of line 460
WarnNoKeywords ==
    /\ pc = "gsc_done"
    /\ processed_gsc.none \/ Len(processed_gsc.rows) = 0
    /\ pc' = "done"
    /\ UNCHANGED <<gsc_file, sf_file, st_error,
                   url_in, url_out, url_out2, excl_out, keyword_in, text_in,
                   presence_out, excluded_urls, branded_terms, top_keywords_count,
                   gsc_df, crawl_df, processed_gsc, processed_crawl, report>>

\* app.py:464-465; with processed_crawl None, crawl_df['URL'] raises
CreateReport ==
    /\ pc = "crawl_done"
    /\ IF processed_crawl.none
       THEN pc' = "error" /\ report' = report /\ st_error' = Append(st_error, ErrorOccurred)
       ELSE /\ report' = create_striking_distance_report(
                             processed_gsc.rows, processed_crawl.rows, top_keywords_count)
            /\ pc' = "done"
            /\ st_error' = st_error
    /\ UNCHANGED <<gsc_file, sf_file, url_in, url_out, url_out2, excl_out, keyword_in, text_in,
                   presence_out, excluded_urls, branded_terms, top_keywords_count,
                   gsc_df, crawl_df, processed_gsc, processed_crawl>>

\* a call of clean_url, app.py:289 and 353
CleanUrlCall ==
    /\ pc = "clean_url"
    /\ url_out' = clean_url(url_in)
    /\ pc' = "clean_url_again"
    /\ UNCHANGED <<gsc_file, sf_file, st_error,
                   url_in, url_out2, excl_out, keyword_in, text_in, presence_out,
                   excluded_urls, branded_terms, top_keywords_count, gsc_df, crawl_df,
                   processed_gsc, processed_crawl, report>>

\* clean_url on a value clean_url returned
CleanUrlAgain ==
    /\ pc = "clean_url_again"
    /\ url_out2' = clean_url(url_out)
    /\ pc' = "clean_done"
    /\ UNCHANGED <<gsc_file, sf_file, st_error,
                   url_in, url_out, excl_out, keyword_in, text_in, presence_out,
                   excluded_urls, branded_terms, top_keywords_count, gsc_df, crawl_df,
                   processed_gsc, processed_crawl, report>>

\* a call of should_exclude_url, app.py:295
ExcludeCall ==
    /\ pc = "should_exclude_url"
    /\ excl_out' = should_exclude_url(url_in, excluded_urls)
    /\ pc' = "exclude_done"
    /\ UNCHANGED <<gsc_file, sf_file, st_error,
                   url_in, url_out, url_out2, keyword_in, text_in, presence_out,
                   excluded_urls, branded_terms, top_keywords_count, gsc_df, crawl_df,
                   processed_gsc, processed_crawl, report>>

\* a call of check_keyword_presence, app.py:420-424
PresenceCall ==
    /\ pc = "check_keyword_presence"
    /\ presence_out' = check_keyword_presence(keyword_in, text_in)
    /\ pc' = "presence_done"
    /\ UNCHANGED <<gsc_file, sf_file, st_error,
                   url_in, url_out, url_out2, excl_out, keyword_in, text_in,
                   excluded_urls, branded_terms, top_keywords_count, gsc_df, crawl_df,
                   processed_gsc, processed_crawl, report>>

-----------------------------------------------------------------------------
(* Inputs.                                                                  *)

\* the longest text given to clean_url
MaxUrlLen == 4

\* the longest exclusion list given to should_exclude_url
MaxExcl == 2

\* the most words of a query and of a text given to check_keyword_presence
MaxQueryWords == 2

MaxTextWords == 3

\* the most lines of the branded terms
MaxBranded == 2

\* the most rows of a performance table
MaxRows == 3

\* app.py:42-44, the number input of the sidebar
DefaultTopKeywords == 10

MinTopKeywords == 1

MaxTopKeywords == 20

\* all tuples over the set of at most n elements
SeqsUpTo(set, n) == UNION {[1..k -> set] : k \in 0..n}

UrlAlphabet == {"a", "/", " "}

\* URLs with a scheme, upper case and a query string
SampleUrls ==
    {<<"h","t","t","p","s",":","/","/","s","i","t","e",".","c","o","m","/","a">>, <<"h","t","t","p","s",":","/","/","s","i","t","e",".","c","o","m","/","a","/","/">>, <<"h","t","t","p","s",":","/","/","s","i","t","e",".","c","o","m","/">>,
     <<" ","H","T","T","P",":","/","/","S","i","t","e",".","c","o","m","/","A","?","b","=","1","/"," ">>}

CleanUrlInputs == SeqsUpTo(UrlAlphabet, MaxUrlLen) \cup SampleUrls \cup {NaN}

UrlPaths ==
    {<< >>, <<"/","b","l","o","g","s">>, <<"/","n","e","w","s">>, <<"/","b","l","o","g","s","/","n","e","w","s">>, <<"/","b","l","o","g","s","/","n","e","w","s","/","a","r","t","i","c","l","e","-","1">>, <<"/","n","e","w","s","/","b","l","o","g","s","/","n","e","w","s">>}

UrlTails == {<< >>, <<"/">>, <<"?","r","e","f","=","1">>, <<"#","t","o","p">>, <<"/","x","=","1">>}

ExcludeUrls ==
    {sch \o <<"s","i","t","e",".","c","o","m">> \o p \o t : sch \in {<<"h","t","t","p","s",":","/","/">>, <<"h","t","t","p",":","/","/">>}, p \in UrlPaths, t \in UrlTails}
    \cup {p \o t : p \in UrlPaths, t \in UrlTails}

ExcludeEntries ==
    {<< >>, <<" ">>, <<"/">>, <<"/","b","l","o","g","s","/","n","e","w","s">>, <<"b","l","o","g","s","/","n","e","w","s">>, <<"/","b","l","o","g","s","/","n","e","w","s","/">>, <<"n","e","w","s">>,
     <<"s","i","t","e",".","c","o","m","/","b","l","o","g","s">>, <<" ","s","i","t","e",".","c","o","m","/","b","l","o","g","s","/","n","e","w","s"," ">>, <<"h","t","t","p","s",":","/","/","s","i","t","e",".","c","o","m","/","b","l","o","g","s","/","n","e","w","s">>,
     <<"h","t","t","p","s",":","/","/","s","i","t","e",".","c","o","m","/","b","l","o","g","s","/">>, <<"h","t","t","p",":","/","/","s","i","t","e",".","c","o","m","/","n","e","w","s">>}

QueryWords == {<<"f","i","x">>, <<"t","h","e">>, <<"b","o","x","e","s">>, <<"s","h","o","e","s">>}

TextWords == {<<"f","i","x">>, <<"t","h","e">>, <<"b","o","x">>, <<"s","h","o","e">>}

Queries ==
    {Join(ws, <<" ">>) : ws \in SeqsUpTo(QueryWords, MaxQueryWords) \ {<< >>}}
    \cup {NaN, << >>, <<" ">>, <<"Q","u","i","c","k"," ","F","i","x"," ">>, <<"s","h","o","e">>, <<"q","u","i","c","k"," ","f","i","x">>, <<"b","e","s","t"," ","r","u","n","n","i","n","g"," ","s","h","o","e">>}

Texts ==
    {Join(ws, <<" ">>) : ws \in SeqsUpTo(TextWords, MaxTextWords) \ {<< >>}}
    \cup {NaN, << >>, <<"o","n","e"," ","b","o","x">>, <<"o","n","e"," ","s","h","o","e">>, <<"I"," ","l","o","v","e"," ","t","h","e","s","e"," ","s","h","o","e","s">>, <<"a"," ","q","u","i","c","k"," ","f","i","x">>,
          <<"Q","u","i","c","k"," ","f","i","x",":"," ","t","o","d","a","y">>, <<"t","h","i","s"," ","i","s"," ","t","h","e"," ","b","e","s","t"," ","r","u","n","n","i","n","g"," ","s","h","o","e">>}

\* the columns of a performance table, each with the field of the row choice
\* that fills its cells
LayoutStandard ==
    <<[name |-> <<"Q","u","e","r","y">>, kind |-> "q"], [name |-> <<"L","a","n","d","i","n","g"," ","P","a","g","e">>, kind |-> "u"],
      [name |-> <<"C","l","i","c","k","s">>, kind |-> "c"], [name |-> <<"P","o","s","i","t","i","o","n">>, kind |-> "p"]>>

LayoutLower ==
    <<[name |-> <<" ","q","u","e","r","y"," ">>, kind |-> "q"], [name |-> <<"U","R","L">>, kind |-> "u"],
      [name |-> <<"c","l","i","c","k","s">>, kind |-> "c"]>>

LayoutNoPage ==
    <<[name |-> <<"Q","u","e","r","y">>, kind |-> "q"], [name |-> <<"C","l","i","c","k","s">>, kind |-> "c"]>>

LayoutUpper ==
    <<[name |-> <<"Q","U","E","R","Y">>, kind |-> "q"], [name |-> <<"P","A","G","E">>, kind |-> "u"],
      [name |-> <<"C","L","I","C","K","S">>, kind |-> "c"]>>

LayoutOnlyPage == <<[name |-> <<"A","d","d","r","e","s","s">>, kind |-> "u"]>>

LayoutOther ==
    <<[name |-> <<"K","e","y","w","o","r","d">>, kind |-> "q"], [name |-> <<"L","i","n","k">>, kind |-> "u"],
      [name |-> <<"I","m","p","r","e","s","s","i","o","n","s">>, kind |-> "c"]>>

LayoutTwoPages ==
    <<[name |-> <<"Q","u","e","r","y">>, kind |-> "q"], [name |-> <<"L","a","n","d","i","n","g"," ","P","a","g","e">>, kind |-> "u"],
      [name |-> <<"U","R","L">>, kind |-> "u"], [name |-> <<"C","l","i","c","k","s">>, kind |-> "c"]>>

MakeTable(layout, choices) ==
    [columns |-> [j \in 1..Len(layout) |-> layout[j].name],
     rows |-> [i \in 1..Len(choices) |-> [j \in 1..Len(layout) |-> choices[i][layout[j].kind]]]]

Tables(layouts, choices) ==
    {MakeTable(l, cs) : l \in layouts, cs \in SeqsUpTo(choices, MaxRows)}

RowChoices(qs, us, cs, ps) == [q : qs, u : us, c : cs, p : ps]

CrawlColumns ==
    <<<<"A","d","d","r","e","s","s">>, <<"T","i","t","l","e"," ","1">>, <<"H","1","-","1">>, <<"M","e","t","a"," ","D","e","s","c","r","i","p","t","i","o","n"," ","1">>, <<"H","2","-","1">>, <<"C","o","p","y"," ","1">>, <<"I","n","d","e","x","a","b","i","l","i","t","y">>>>

PageA ==
    <<<<"s","i","t","e",".","c","o","m","/","a","/">>, <<"Q","u","i","c","k"," ","F","i","x"," ","G","u","i","d","e">>, <<"T","h","e"," ","f","i","x">>, NaN, <<"b","o","x","e","s">>, <<"o","n","e"," ","s","h","o","e"," ","a","n","d"," ","a"," ","f","i","x">>, <<"I","n","d","e","x","a","b","l","e">>>>

PageANoCopy ==
    <<<<"s","i","t","e",".","c","o","m","/","a">>, <<"Q","u","i","c","k"," ","F","i","x"," ","G","u","i","d","e">>, << >>, <<"f","i","x"," ","t","h","e"," ","b","o","x">>, NaN, NaN, <<"I","n","d","e","x","a","b","l","e">>>>

PageBHidden ==
    <<<<"s","i","t","e",".","c","o","m","/","b">>, <<"S","h","o","e","s">>, <<"S","h","o","e","s">>, <<"S","h","o","e","s">>, <<"S","h","o","e","s">>, <<"S","h","o","e","s">>, <<"N","o","n","-","I","n","d","e","x","a","b","l","e">>>>

CrawlTables ==
    {[columns |-> CrawlColumns, rows |-> << >>],
     [columns |-> CrawlColumns, rows |-> <<PageA>>],
     [columns |-> CrawlColumns, rows |-> <<PageANoCopy, PageA>>],
     [columns |-> CrawlColumns, rows |-> <<PageA, PageBHidden>>],
     [columns |-> <<<<"U","R","L">>, <<"T","i","t","l","e"," ","1">>>>, rows |-> <<<<<<"s","i","t","e",".","c","o","m","/","a">>, <<"t","h","e"," ","f","i","x">>>>>>],
     [columns |-> <<<<"P","a","g","e">>, <<"T","i","t","l","e"," ","1">>>>, rows |-> <<<<<<"s","i","t","e",".","c","o","m","/","a">>, <<"t","h","e"," ","f","i","x">>>>>>]}

\* the state before any call, with the inputs given
Start(p, u, ex, kw, tx, br, top, gsc, crawl) ==
    /\ pc = p
    /\ url_in = u
    /\ url_out = NaN
    /\ url_out2 = NaN
    /\ excl_out = FALSE
    /\ keyword_in = kw
    /\ text_in = tx
    /\ presence_out = "unset"
    /\ excluded_urls = ex
    /\ branded_terms = br
    /\ top_keywords_count = top
    /\ gsc_file = gsc
    /\ sf_file = crawl
    /\ gsc_df = gsc
    /\ crawl_df = crawl
    /\ st_error = << >>
    /\ processed_gsc = NoResult
    /\ processed_crawl = NoResult
    /\ report = << >>

InitClean ==
    \E u \in CleanUrlInputs :
        Start("clean_url", u, << >>, NaN, NaN, << >>, DefaultTopKeywords, EmptyTable, EmptyTable)

InitExclude ==
    \E u \in ExcludeUrls, ex \in SeqsUpTo(ExcludeEntries, MaxExcl) :
        Start("should_exclude_url", u, ex, NaN, NaN, << >>, DefaultTopKeywords, EmptyTable, EmptyTable)

InitPresence ==
    \E kw \in Queries, tx \in Texts :
        Start("check_keyword_presence", NaN, << >>, kw, tx, << >>, DefaultTopKeywords, EmptyTable, EmptyTable)

InitRun(tables, crawls, tops, exs, brs) ==
    \E gsc \in tables, crawl \in crawls, top \in tops, ex \in exs, br \in brs :
        Start("main", NaN, ex, NaN, NaN, br, top, gsc, crawl)

NextClean == CleanUrlCall \/ CleanUrlAgain

NextRun == ProcessGsc \/ ProcessCrawl \/ WarnNoKeywords \/ CreateReport

SpecClean == InitClean /\ [][NextClean]_vars

SpecExclude == InitExclude /\ [][ExcludeCall]_vars

SpecPresence == InitPresence /\ [][PresenceCall]_vars

\* tables that differ in the URL and the clicks of their rows
InitTopN ==
    InitRun(Tables({LayoutStandard, LayoutNoPage},
                   RowChoices({<<"f","i","x">>}, {<<"s","i","t","e",".","c","o","m","/","a">>, <<"s","i","t","e",".","c","o","m","/","b","/">>}, {<<"1">>, <<"2">>}, {<<"5">>})),
            {[columns |-> CrawlColumns, rows |-> <<PageA>>]},
            MinTopKeywords..MaxTopKeywords, {<<<< >>>>}, {<<<< >>>>})

SpecTopN == InitTopN /\ [][NextRun]_vars

\* tables that differ in the clicks and the position of their rows
InitBand ==
    InitRun(Tables({LayoutStandard, LayoutLower, LayoutNoPage},
                   RowChoices({<<"f","i","x">>}, {<<"s","i","t","e",".","c","o","m","/","a">>}, {<<"0">>, <<"1">>},
                              {NaN, <<"3",".","9">>, <<"4">>, <<"2","0">>, <<"2","0",".","1">>})),
            {[columns |-> CrawlColumns, rows |-> <<PageA>>]},
            {DefaultTopKeywords}, {<<<< >>>>}, {<<<< >>>>})

SpecBand == InitBand /\ [][NextRun]_vars

\* tables that differ in the URL and the query of their rows, and crawls
InitContent ==
    InitRun(Tables({LayoutStandard, LayoutNoPage},
                   RowChoices({<<"f","i","x">>, <<"t","h","e"," ","b","o","x">>}, {<<"s","i","t","e",".","c","o","m","/","a">>, <<"s","i","t","e",".","c","o","m","/","b">>}, {<<"1">>}, {<<"5">>})),
            CrawlTables, {DefaultTopKeywords}, {<<<< >>>>}, {<<<< >>>>})

SpecContent == InitContent /\ [][NextRun]_vars

\* tables that differ in the URL of their rows, and exclusion lists
InitParam ==
    InitRun(Tables({LayoutStandard, LayoutNoPage},
                   RowChoices({<<"f","i","x">>},
                              {<<"s","i","t","e",".","c","o","m","/","a">>, <<"s","i","t","e",".","c","o","m","/","a","?","r","e","f","=","1">>, <<"s","i","t","e",".","c","o","m","/","b","#","t","o","p">>, <<"s","i","t","e",".","c","o","m","/","x","=","1","/">>},
                              {<<"1">>}, {<<"5">>})),
            {[columns |-> CrawlColumns, rows |-> <<PageA>>]},
            {DefaultTopKeywords}, {<< >>, <<<< >>>>, <<<<"s","i","t","e",".","c","o","m","/","a">>>>}, {<<<< >>>>})

\* should_exclude_url called alone and by process_gsc_data
SpecParam == (InitExclude \/ InitParam) /\ [][ExcludeCall \/ NextRun]_vars

\* tables that differ in the URL and the clicks of their rows, whole and
\* fractional
InitOrder ==
    InitRun(Tables({LayoutStandard, LayoutNoPage},
                   RowChoices({<<"f","i","x">>}, {<<"s","i","t","e",".","c","o","m","/","b">>, <<"s","i","t","e",".","c","o","m","/","a","/">>},
                              {<<"1">>, <<"1",".","5">>, <<"2">>}, {<<"5">>})),
            {[columns |-> CrawlColumns, rows |-> <<PageA>>]},
            {MinTopKeywords, 2, DefaultTopKeywords}, {<<<< >>>>}, {<<<< >>>>})

SpecOrder == InitOrder /\ [][NextRun]_vars

\* the lines of the branded terms text area
BrandedLines == {<< >>, <<" ">>, <<"A","c","m","e">>, <<" ","f","i","x"," ">>}

\* tables that differ in the query of their rows, and branded terms
InitBrand ==
    InitRun(Tables({LayoutStandard},
                   RowChoices({<<"a","c","m","e"," ","s","h","o","e","s">>, <<"F","i","x"," ","A","C","M","E">>, <<"b","o","x">>}, {<<"s","i","t","e",".","c","o","m","/","a">>},
                              {<<"1">>}, {<<"5">>})),
            {[columns |-> CrawlColumns, rows |-> <<PageA>>]},
            {DefaultTopKeywords}, {<<<< >>>>},
            SeqsUpTo(BrandedLines, MaxBranded) \ {<< >>})

SpecBrand == InitBrand /\ [][NextRun]_vars

\* tables that differ in their columns, and in the rows the filters drop
InitColumns ==
    InitRun(Tables({LayoutStandard, LayoutLower, LayoutUpper, LayoutNoPage, LayoutOnlyPage,
                    LayoutOther, LayoutTwoPages},
                   RowChoices({<<"f","i","x">>}, {<<"s","i","t","e",".","c","o","m","/","a">>, <<"/">>}, {<<"1">>, <<"0">>}, {<<"5">>})),
            {[columns |-> CrawlColumns, rows |-> <<PageA>>]},
            {DefaultTopKeywords}, {<<<< >>>>}, {<<<< >>>>})

SpecColumns == InitColumns /\ [][NextRun]_vars

Init == InitClean \/ InitExclude \/ InitPresence \/ InitParam

Next == NextClean \/ ExcludeCall \/ PresenceCall \/ NextRun

Spec == Init /\ [][Next]_vars


-----------------------------------------------------------------------------
(* Properties of clean_url and should_exclude_url.                         *)

\* C4: clean_url is idempotent: clean_url applied to a value it returned
\* returns that value.
C4_CleanUrlIdempotent ==
    pc = "clean_done" => url_out2 = url_out

\* C2: when the exclusion list holds an entry written as a path with a leading
\* slash, a URL made of a scheme, a host and exactly that path is excluded.
C2_LeadingSlashEntryExcludes ==
    pc = "exclude_done" =>
        \A i \in 1..Len(excluded_urls) :
            \A sch \in {<<"h","t","t","p","s",":","/","/">>, <<"h","t","t","p",":","/","/">>} :
                LET e == excluded_urls[i]
                    host == SubSeq(url_in, Len(sch) + 1, Len(url_in) - Len(e))
                IN  ( /\ Len(e) >= 2 /\ Head(e) = "/" /\ e[Len(e)] \notin {"/", " "}
                      /\ Len(url_in) > Len(sch) + Len(e)
                      /\ StartsWith(url_in, sch)
                      /\ EndsWith(url_in, e)
                      /\ \A k \in 1..Len(host) : host[k] # "/" )
                    => excl_out = TRUE

\* an exclusion entry as the filter reads it: trimmed, trailing slashes removed
EntryText(e) == RStripSet(Strip(e), {"/"})

\* the entry names the URL itself: the URL, trailing slashes aside, is the
\* entry, or the entry after a scheme/host prefix that ends in a slash
EntryDenotes(e, url) ==
    /\ Strip(e) # << >>
    /\ \/ RStripSet(url, {"/"}) = EntryText(e)
       \/ EndsWith(RStripSet(url, {"/"}), <<"/">> \o EntryText(e))

\* the URL is the entry (alone or after a prefix that ends in a slash)
\* followed by a slash and further path segments
IsSubPageOf(url, e) ==
    /\ EntryText(e) # << >>
    /\ \E a \in 1..Len(url) :
          LET b == a + Len(EntryText(e))
          IN  /\ b < Len(url)
              /\ SubSeq(url, a, b - 1) = EntryText(e)
              /\ (a = 1 \/ url[a - 1] = "/")
              /\ url[b] = "/"
              /\ \E k \in (b + 1)..Len(url) : url[k] # "/"

NoParamChar(url) == \A i \in 1..Len(url) : url[i] \notin {"?", "=", "#"}

C9_ParameterUrlsExcluded ==
    /\ (pc = "exclude_done" /\ ~NoParamChar(url_in)) => excl_out = TRUE
    /\ \A i \in 1..Len(processed_gsc.rows) : NoParamChar(processed_gsc.rows[i].URL)
    /\ \A i \in 1..Len(report) : NoParamChar(report[i].URL)

C9_Witness ==
    /\ pc = "exclude_done"
    /\ url_in = <<"h","t","t","p","s",":","/","/","s","i","t","e",".","c","o","m","/","b","l","o","g","s","#","t","o","p">>
    /\ excluded_urls = << >>
    /\ excl_out = TRUE


-----------------------------------------------------------------------------
(* Properties of check_keyword_presence.                                   *)

IsMissingValue(v) == v = NaN \/ v = << >>

\* the query and the text as the matcher compares them
QueryText == Strip(Lower(keyword_in))

LowerText == Lower(text_in)

\* C6: for a non-empty query and text the result is True when the query ends
\* in 's' and the text holds it without the 's', or ends in 'es' and the text
\* holds it without the 'es', or does not end in 's' and the text holds it
\* with 's' or 'es' appended.
C6_PluralFolding ==
    ( /\ pc = "presence_done"
      /\ ~IsMissingValue(keyword_in) /\ ~IsMissingValue(text_in)
      /\ \/ /\ EndsWith(QueryText, <<"s">>)
            /\ Contains(SubSeq(QueryText, 1, Len(QueryText) - 1), LowerText)
         \/ /\ EndsWith(QueryText, <<"e","s">>)
            /\ Contains(SubSeq(QueryText, 1, Len(QueryText) - 2), LowerText)
         \/ /\ ~EndsWith(QueryText, <<"s">>)
            /\ \/ Contains(QueryText \o <<"s">>, LowerText)
               \/ Contains(QueryText \o <<"e","s">>, LowerText) )
    => presence_out = "True"

\* C7: the result is None exactly when the query or the text is missing or
\* empty; otherwise it is True or False.
C7_TriState ==
    pc = "presence_done" =>
        /\ presence_out \in {"None", "True", "False"}
        /\ (IsMissingValue(keyword_in) \/ IsMissingValue(text_in)) <=> presence_out = "None"

C7_Witness ==
    /\ pc = "presence_done"
    /\ keyword_in = <<"f","i","x"," ","t","h","e">>
    /\ text_in = << >>
    /\ presence_out = "None"

TheArticles == {<<"a">>, <<"a","n">>, <<"t","h","e">>}

\* the words with the article put in after the first i of them
WithArticleAt(words, i, a) ==
    Join(SubSeq(words, 1, i) \o <<a>> \o SubSeq(words, i + 1, Len(words)), <<" ">>)

\* C8: for a non-empty query and text the result is True when the text holds
\* the query with 'a', 'an' or 'the' put in at any of its word boundaries, and
\* when the query has an article word and the text holds the query without
\* its article words.
C8_ArticleTolerance ==
    ( /\ pc = "presence_done"
      /\ ~IsMissingValue(keyword_in) /\ ~IsMissingValue(text_in) )
    => /\ (\E i \in 0..Len(Split(QueryText)), a \in TheArticles :
              Contains(WithArticleAt(Split(QueryText), i, a), LowerText))
          => presence_out = "True"
       /\ ( /\ \E k \in 1..Len(Split(QueryText)) : Split(QueryText)[k] \in TheArticles
            /\ Contains(Join(SelectSeq(Split(QueryText), LAMBDA w : w \notin TheArticles), <<" ">>),
                        LowerText) )
          => presence_out = "True"

C8_Witness ==
    /\ pc = "presence_done"
    /\ keyword_in = <<"f","i","x"," ","f","i","x">>
    /\ text_in = <<"f","i","x"," ","t","h","e"," ","f","i","x">>
    /\ ~Contains(QueryText, LowerText)
    /\ Contains(WithArticleAt(Split(QueryText), 1, <<"t","h","e">>), LowerText)
    /\ presence_out = "True"


-----------------------------------------------------------------------------
(* Properties of the run.                                                  *)

\* the report was built
Reported == pc = "done" /\ ~processed_crawl.none

\* the places of the cleaned table, and of the report, that hold the URL
CleanedAt(u) == {i \in 1..Len(processed_gsc.rows) : processed_gsc.rows[i].URL = u}

ReportAt(u) == {j \in 1..Len(report) : report[j].URL = u}

\* the rows of the cleaned table the report rows of the URL were built from
Picked(u) == {report[j].idx : j \in ReportAt(u)}

\* C1: the report holds at most top_keywords_count rows of one URL; when the
\* cleaned table holds more rows of the URL, the rows taken are those with the
\* most clicks, a row loaded earlier going before a later one with as many.
C1_TopN ==
    Reported =>
        /\ \A j \in 1..Len(report) : CleanedAt(report[j].URL) # {}
        /\ \A i \in 1..Len(processed_gsc.rows) :
              LET u == processed_gsc.rows[i].URL
              IN  /\ Cardinality(ReportAt(u)) <= top_keywords_count
                  /\ Cardinality(ReportAt(u)) =
                        (IF Cardinality(CleanedAt(u)) < top_keywords_count
                         THEN Cardinality(CleanedAt(u)) ELSE top_keywords_count)
                  /\ Cardinality(Picked(u)) = Cardinality(ReportAt(u))
                  /\ Picked(u) \subseteq {processed_gsc.rows[k].idx : k \in CleanedAt(u)}
                  /\ \A a \in CleanedAt(u), b \in CleanedAt(u) :
                        ( /\ processed_gsc.rows[a].idx \in Picked(u)
                          /\ processed_gsc.rows[b].idx \notin Picked(u) )
                        => \/ processed_gsc.rows[a].Clicks > processed_gsc.rows[b].Clicks
                           \/ /\ processed_gsc.rows[a].Clicks = processed_gsc.rows[b].Clicks
                              /\ processed_gsc.rows[a].idx < processed_gsc.rows[b].idx

\* more rows of one URL than are kept, with a tie in clicks between a row
\* taken and a row left out
C1_Witness ==
    /\ Reported
    /\ \E a \in 1..Len(processed_gsc.rows), b \in 1..Len(processed_gsc.rows) :
          /\ processed_gsc.rows[a].URL = processed_gsc.rows[b].URL
          /\ Cardinality(CleanedAt(processed_gsc.rows[a].URL)) > top_keywords_count
          /\ processed_gsc.rows[a].idx \in Picked(processed_gsc.rows[a].URL)
          /\ processed_gsc.rows[b].idx \notin Picked(processed_gsc.rows[a].URL)
          /\ processed_gsc.rows[a].Clicks = processed_gsc.rows[b].Clicks

\* process_gsc_data returned a table
Cleaned == pc \in {"gsc_done", "crawl_done", "done"} /\ ~processed_gsc.none

HasPositionColumn == HasColumn(gsc_df.columns, <<"P","o","s","i","t","i","o","n">>)

RawPosition(i) == to_numeric(Cell(gsc_df, i, <<"P","o","s","i","t","i","o","n">>))

\* the row of the table as loaded passes every filter but the one on rank
Survives(i) ==
    /\ ~IsMissingValue(clean_url(Cell(gsc_df, i, <<"U","R","L">>)))
    /\ ~IsMissingValue(Cell(gsc_df, i, <<"K","e","y","w","o","r","d">>))
    /\ ~should_exclude_url(clean_url(Cell(gsc_df, i, <<"U","R","L">>)), excluded_urls)
    /\ to_numeric(Cell(gsc_df, i, <<"C","l","i","c","k","s">>)).ok
    /\ to_numeric(Cell(gsc_df, i, <<"C","l","i","c","k","s">>)).v > 0
    /\ \A k \in 1..Len(branded_terms) : Strip(branded_terms[k]) = << >>

CleanedIdx == {processed_gsc.rows[k].idx : k \in 1..Len(processed_gsc.rows)}

WithinBand(p) == min_position * 10 <= p /\ p <= max_position * 10

\* C5: every row of the cleaned table has a position from min_position to
\* max_position; with a position column, the position is the row's own and a
\* row at either bound is kept; without one, or when no row has a position
\* that parses, no row is dropped for its rank and each gets position 10.
C5_PositionBand ==
    Cleaned =>
        /\ \A k \in 1..Len(processed_gsc.rows) : WithinBand(processed_gsc.rows[k].Position)
        /\ HasPositionColumn =>
              /\ \A k \in 1..Len(processed_gsc.rows) :
                    RawPosition(processed_gsc.rows[k].idx).ok =>
                        processed_gsc.rows[k].Position = RawPosition(processed_gsc.rows[k].idx).v
              /\ \A i \in 1..Len(gsc_df.rows) :
                    ( /\ Survives(i) /\ RawPosition(i).ok /\ WithinBand(RawPosition(i).v) )
                    => i \in CleanedIdx
        /\ ( \/ ~HasPositionColumn
             \/ \A i \in 1..Len(gsc_df.rows) : ~RawPosition(i).ok )
           => /\ CleanedIdx = {i \in 1..Len(gsc_df.rows) : Survives(i)}
              /\ \A k \in 1..Len(processed_gsc.rows) : processed_gsc.rows[k].Position = 100

\* rows at both bounds kept, a row just outside dropped
C5_Witness ==
    /\ Cleaned
    /\ HasPositionColumn
    /\ \E k \in 1..Len(processed_gsc.rows) : processed_gsc.rows[k].Position = min_position * 10
    /\ \E k \in 1..Len(processed_gsc.rows) : processed_gsc.rows[k].Position = max_position * 10
    /\ \E i \in 1..Len(gsc_df.rows) :
          Survives(i) /\ RawPosition(i).ok /\ RawPosition(i).v = max_position * 10 + 1
                      /\ i \notin CleanedIdx

\* the rows of the content table for the URL
ContentRows(u) == SelectSeq(processed_crawl.rows, LAMBDA c : c.URL = u)

\* C10: a URL of the cleaned table without a row in the content table still
\* has its rows in the report, each with the four structural flags False and
\* In Body "No Data", and the report is built without an error; In Body is
\* "No Data" only when the body text of the URL is empty, and the structural
\* flags are always True or False.
C10_MissingContent ==
    /\ (pc = "error" /\ ~processed_gsc.none) => processed_crawl.none
    /\ Reported =>
          /\ \A i \in 1..Len(processed_gsc.rows) :
                ContentRows(processed_gsc.rows[i].URL) = << >> =>
                    /\ Cardinality(ReportAt(processed_gsc.rows[i].URL)) =
                          (IF Cardinality(CleanedAt(processed_gsc.rows[i].URL)) < top_keywords_count
                           THEN Cardinality(CleanedAt(processed_gsc.rows[i].URL))
                           ELSE top_keywords_count)
                    /\ \A j \in ReportAt(processed_gsc.rows[i].URL) :
                          /\ report[j].InTitle = "False" /\ report[j].InMeta = "False"
                          /\ report[j].InH1 = "False" /\ report[j].InH2 = "False"
                          /\ report[j].InBody = "No Data"
          /\ \A j \in 1..Len(report) :
                /\ {report[j].InTitle, report[j].InMeta, report[j].InH1, report[j].InH2}
                      \subseteq {"True", "False"}
                /\ report[j].InBody \in {"True", "False", "No Data"}
                /\ report[j].InBody = "No Data" =>
                      \/ ContentRows(report[j].URL) = << >>
                      \/ ContentRows(report[j].URL)[1].Copy = << >>

\* a report with a page that has content and a page that has none
C10_Witness ==
    /\ Reported
    /\ \E j \in 1..Len(report) :
          /\ ContentRows(report[j].URL) = << >>
          /\ report[j].InTitle = "False" /\ report[j].InBody = "No Data"
    /\ \E j \in 1..Len(report) :
          /\ ContentRows(report[j].URL) # << >>
          /\ report[j].InTitle = "True"



\* the place in the cleaned table of the row loaded as row idx
PlaceInCleaned(idx) ==
    CHOOSE k \in 1..Len(processed_gsc.rows) : processed_gsc.rows[k].idx = idx

\* C11: the rows of the report are in ascending order of URL and, within one
\* URL, in descending order of clicks, and they follow one another as the
\* rows they were built from do in the cleaned table, so rows of one URL with
\* as many clicks keep the order they have there.
C11_ReportOrder ==
    Reported =>
        \A i \in 1..Len(report), j \in 1..Len(report) :
            i < j =>
                /\ report[i].URL = report[j].URL \/ LessStr(report[i].URL, report[j].URL)
                /\ report[i].URL = report[j].URL => report[i].Clicks >= report[j].Clicks
                /\ PlaceInCleaned(report[i].idx) < PlaceInCleaned(report[j].idx)

\* a report with two URLs, loaded in descending order, and two rows of one
\* URL with as many whole clicks, of which the later loaded has more clicks
C11_Witness ==
    /\ Reported
    /\ \E i \in 1..Len(report), j \in 1..Len(report), k \in 1..Len(report) :
          /\ i < j
          /\ report[i].URL = report[j].URL
          /\ report[i].Clicks = report[j].Clicks
          /\ report[i].idx > report[j].idx
          /\ report[k].URL # report[i].URL
          /\ (k < i) = (report[k].idx > report[i].idx)

\* the branded terms supplied that are not blank, stripped
SuppliedTerms ==
    {Strip(branded_terms[k]) : k \in 1..Len(branded_terms)} \ {<< >>}

\* the row of the table as loaded passes every filter but the one on the
\* branded terms
SurvivesButBranded(i) ==
    /\ ~IsMissingValue(clean_url(Cell(gsc_df, i, <<"U","R","L">>)))
    /\ ~IsMissingValue(Cell(gsc_df, i, <<"K","e","y","w","o","r","d">>))
    /\ ~should_exclude_url(clean_url(Cell(gsc_df, i, <<"U","R","L">>)), excluded_urls)
    /\ to_numeric(Cell(gsc_df, i, <<"C","l","i","c","k","s">>)).ok
    /\ to_numeric(Cell(gsc_df, i, <<"C","l","i","c","k","s">>)).v > 0
    /\ HasPositionColumn => RawPosition(i).ok /\ WithinBand(RawPosition(i).v)

\* C12: no row of the cleaned table, and so no row of the report, has a
\* query that contains a supplied non-blank branded term, upper and lower
\* case taken as one; when every supplied term is blank, the rows that pass
\* the other filters are all in the cleaned table.
C12_BrandedExcluded ==
    Cleaned =>
        /\ \A t \in SuppliedTerms :
              /\ \A k \in 1..Len(processed_gsc.rows) :
                    ~Contains(Lower(t), Lower(processed_gsc.rows[k].Keyword))
              /\ \A j \in 1..Len(report) : ~Contains(Lower(t), Lower(report[j].Keyword))
        /\ SuppliedTerms = {} =>
              \A i \in 1..Len(gsc_df.rows) : SurvivesButBranded(i) => i \in CleanedIdx

\* a report made with a term supplied among blank lines: a row whose query
\* holds the term in another case was dropped, and a row was kept
C12_Witness ==
    /\ Reported
    /\ Len(report) > 0
    /\ \E k \in 1..Len(branded_terms) : Strip(branded_terms[k]) = << >>
    /\ \E t \in SuppliedTerms, i \in 1..Len(gsc_df.rows) :
          /\ SurvivesButBranded(i)
          /\ ~Contains(t, Cell(gsc_df, i, <<"K","e","y","w","o","r","d">>))
          /\ Contains(Lower(t), Lower(Cell(gsc_df, i, <<"K","e","y","w","o","r","d">>)))
          /\ i \notin CleanedIdx

\* a column of the uploaded table has one of the names, upper and lower case
\* taken as one
Resolved(names) ==
    \E j \in 1..Len(gsc_file.columns) : Lower(Strip(gsc_file.columns[j])) \in names

\* the mandatory logical columns that no column of the uploaded table gives
MissingLogical ==
    (IF Resolved({<<"q","u","e","r","y">>}) THEN << >> ELSE <<<<"Q","u","e","r","y">>>>)
    \o (IF Resolved({<<"l","a","n","d","i","n","g"," ","p","a","g","e">>, <<"l","a","n","d","i","n","g"," ","p","a","g","e","s">>, <<"a","d","d","r","e","s","s">>, <<"u","r","l">>, <<"u","r","l","s">>,
                     <<"p","a","g","e">>, <<"t","o","p"," ","p","a","g","e","s">>})
        THEN << >> ELSE <<<<"L","a","n","d","i","n","g"," ","P","a","g","e"," ","(","o","r"," ","A","d","d","r","e","s","s","/","U","R","L",")">>>>)
    \o (IF Resolved({<<"c","l","i","c","k","s">>}) THEN << >> ELSE <<<<"C","l","i","c","k","s">>>>)

\* process_gsc_data returned None
Rejected == pc # "main" /\ pc # "error" /\ processed_gsc.none

\* C13: process_gsc_data rejects the table, cleaning no row, exactly when a
\* mandatory logical column (query, landing page, clicks) is given by no
\* column, and the message lists exactly the missing ones; in every other
\* case it returns a table, with no row when no row passes the filters.
C13_MissingColumns ==
    pc # "main" =>
        /\ Rejected <=> MissingLogical # << >>
        /\ Rejected =>
              /\ st_error = <<<<<<"M","i","s","s","i","n","g"," ","r","e","q","u","i","r","e","d"," ","c","o","l","u","m","n","s"," ","i","n"," ","G","S","C"," ","d","a","t","a">>>> \o MissingLogical>>
              /\ gsc_df.rows = gsc_file.rows
        /\ MissingLogical = << >> => ~processed_gsc.none

\* the fields of a StrikingDistanceRow, in order
StrikingDistanceRow ==
    <<"url", "query", "clicks", "position", "in_title", "in_meta", "in_h1", "in_h2", "in_body">>

\* the field a column of the report stands for
FieldOf(column) ==
    CASE column = <<"U","R","L">> -> "url"
      [] column = <<"K","e","y","w","o","r","d">> -> "query"
      [] column = <<"C","l","i","c","k","s">> -> "clicks"
      [] column = <<"P","o","s","i","t","i","o","n">> -> "position"
      [] column = <<"I","n"," ","T","i","t","l","e">> -> "in_title"
      [] column = <<"I","n"," ","M","e","t","a">> -> "in_meta"
      [] column = <<"I","n"," ","H","1">> -> "in_h1"
      [] column = <<"I","n"," ","H","2">> -> "in_h2"
      [] column = <<"I","n"," ","B","o","d","y">> -> "in_body"
      [] OTHER -> "other"

\* the fields of a row of the report; idx is no field of the report
RowFields(row) == DOMAIN row \ {"idx"}

\* C14: every row of the report carries exactly the fields url, query,
\* clicks, position, in_title, in_meta, in_h1, in_h2, in_body, and the
\* exported header names them in that order.
C14_RowShape ==
    (Reported /\ Len(report) > 0) =>
        /\ [j \in 1..Len(report_columns) |-> FieldOf(report_columns[j])] = StrikingDistanceRow
        /\ \A j \in 1..Len(report) :
              RowFields(report[j]) =
                  {"URL", "Keyword", "Clicks", "Position",
                   "InTitle", "InMeta", "InH1", "InH2", "InBody"}

\* process_gsc_data, and process_crawl_data, were called
GscCalled == pc \in {"gsc_done", "crawl_done", "done", "error"}

CrawlCalled == pc \in {"crawl_done", "done"} \/ (pc = "error" /\ ~processed_gsc.none)

\* create_striking_distance_report changes none of the tables
ReportKeepsTables ==
    pc = "crawl_done" =>
        /\ processed_gsc' = processed_gsc
        /\ processed_crawl' = processed_crawl
        /\ gsc_df' = gsc_df
        /\ crawl_df' = crawl_df

\* C15: process_gsc_data leaves the table the caller passed as it was
\* uploaded (column names, cells, rows), and so does process_crawl_data;
\* create_striking_distance_report leaves its input tables unchanged.
C15_NoMutation ==
    /\ [](GscCalled => gsc_df = gsc_file)
    /\ [](CrawlCalled => crawl_df = sf_file)
    /\ [][ReportKeepsTables]_vars

\* clean_url was called on a text
CleanedText == pc \in {"clean_url_again", "clean_done"} /\ ~IsNa(url_in)

\* the characters of the text from place a to place b are all in the set
AllIn(text, a, b, set) == \A i \in a..b : text[i] \in set

\* the text is the result between lead white space before it and, after it,
\* slashes slashes then white space whites
SplitsAs(text, result, lead, slashes, whites) ==
    /\ lead + Len(result) + slashes + whites = Len(text)
    /\ AllIn(text, 1, lead, WhiteSpace)
    /\ SubSeq(text, lead + 1, lead + Len(result)) = result
    /\ AllIn(text, lead + Len(result) + 1, lead + Len(result) + slashes, {"/"})
    /\ AllIn(text, lead + Len(result) + slashes + 1, Len(text), WhiteSpace)

\* C16: clean_url removes at most one trailing slash of the trimmed input,
\* so that an input ending in two slashes or more keeps all but the last,
\* and changes no character but the surrounding white space and that slash.
C16_SingleTrim ==
    CleanedText =>
        \E lead \in 0..Len(url_in), slashes \in {0, 1}, whites \in 0..Len(url_in) :
            /\ SplitsAs(url_in, url_out, lead, slashes, whites)
            /\ url_out # << >> => url_out[1] \notin WhiteSpace
            /\ slashes = 0 => (url_out = << >> \/ url_out[Len(url_out)] \notin WhiteSpace \cup {"/"})

\* C16 as amended: clean_url removes every trailing slash of the trimmed
\* input, so that the result never ends in a slash, and changes no character
\* but the surrounding white space and those slashes: scheme, case and query
\* string are kept.
C16_AllTrailingSlashes ==
    CleanedText =>
        /\ url_out = << >> \/ url_out[Len(url_out)] # "/"
        /\ \E lead \in 0..Len(url_in), slashes \in 0..Len(url_in), whites \in 0..Len(url_in) :
              /\ SplitsAs(url_in, url_out, lead, slashes, whites)
              /\ url_out # << >> => url_out[1] \notin WhiteSpace
              /\ slashes = 0 => (url_out = << >> \/ url_out[Len(url_out)] \notin WhiteSpace)

\* a URL with a scheme that ends in two slashes, both removed
C16_Witness ==
    /\ CleanedText
    /\ url_in = <<"h","t","t","p","s",":","/","/","s","i","t","e",".","c","o","m","/","a","/","/">>
    /\ url_out = <<"h","t","t","p","s",":","/","/","s","i","t","e",".","c","o","m","/","a">>

=============================================================================
